---- MODULE Spec2Model ----
(***************************************************************************)
(* A model of zdts3 (main.go): the daily purge -> zip -> upload pipeline,  *)
(* the gocron job that triggers it, and the interrupt handling of main.    *)
(*                                                                         *)
(* Time is counted in minutes of local time since midnight of day 0, a day *)
(* at or after the Unix epoch; a timestamp in milliseconds is UnixMilli(t).*)
(* The files of the initial directory were last modified on day 0 or       *)
(* later.  A path is a sequence of path elements; the file system is a     *)
(* function from the paths that exist to their entries.                    *)
(***************************************************************************)
EXTENDS Integers, Sequences, FiniteSets, TLC

VARIABLES
    now,      \* the wall clock (minutes)
    fs,       \* the file system: path -> entry
    remote,   \* the object store: a set of objects
    proc,     \* the process: "running", "cancelled" (cancel() called), "exited"
    signalled,\* an interrupt signal has been delivered
    nextRun,  \* the instant of the job's next scheduled trigger
    started,  \* number of runs the scheduler has started
    runs,     \* the job goroutines: slot -> run record
    large,    \* the files are larger than the zip writer's buffer
    disturbed,\* number of disturbances so far: I/O faults and delays
    test,     \* TestUploadZip: its position and what uploadZip reported
    boot      \* the start of main: its position, its inputs, the Config

vars == <<now, fs, remote, proc, signalled, nextRun, started, runs, large,
          disturbed, test, boot>>

----------------------------------------------------------------------------
(* Bounds of the model *)

\* the last calendar day the clock reaches
MaxDay == 2
\* the number of disturbances in one behaviour: a failing system or library
\* call, or the clock reaching its next instant while a run is in flight
MaxDisturbances == 2

----------------------------------------------------------------------------
(* Time: time.Date(..., 23, 50, 0, 0, loc).AddDate(0, 0, -1), main.go:169 *)

FilterHour == 23
FilterMinute == 50
JobHour == 23
JobMinute == 50

MinutesPerDay == 24 * 60
MillisPerMinute == 60 * 1000

UnixMilli(t) == t * MillisPerMinute
DayOf(t) == t \div MinutesPerDay
\* time.Date(year, month, day, h, m, 0, 0, loc) for calendar day d
DateAt(d, h, m) == d * MinutesPerDay + h * 60 + m

\* the purge filter archive computes from time.Now()
FilterDayBefore(t) == t - MinutesPerDay
Filter(t) == DateAt(DayOf(t) - 1, FilterHour, FilterMinute)

\* gocron.DailyJob(1, NewAtTimes(NewAtTime(23, 50, 0))): the first trigger
\* at or after t
NextTrigger(t) ==
    IF t <= DateAt(DayOf(t), JobHour, JobMinute)
    THEN DateAt(DayOf(t), JobHour, JobMinute)
    ELSE DateAt(DayOf(t) + 1, JobHour, JobMinute)

----------------------------------------------------------------------------
(* Configuration, as loaded and validated by main *)

Cfg == [Endpoint  |-> "s3.example.org",
        Bucket    |-> "backups",
        SourceDir |-> <<"data">>,
        Zipfile   |-> "dump"]

\* the fields of Config, in the order validate tests them (main.go:217-243)
Fields ==
    <<"Endpoint", "AccessKeyID", "SecretAccessKey", "Bucket", "SourceDir",
      "Zipfile", "LogLevel">>
FieldSet == {Fields[i] : i \in DOMAIN Fields}

\* the message validate joins to its error for an empty field
Required(field) ==
    CASE field = "Endpoint" -> "s3/s3-compatible endpoint required"
      [] field = "AccessKeyID" -> "access key ID required"
      [] field = "SecretAccessKey" -> "secret access key required"
      [] field = "Bucket" -> "bucket required"
      [] field = "SourceDir" -> "source directory required"
      [] field = "Zipfile" -> "zip file required"
      [] field = "LogLevel" -> "log level required"

\* the fields of c that are empty, in the order of Fields
RECURSIVE Missing(_, _)
Missing(c, i) ==
    IF i > Len(Fields) THEN <<>>
    ELSE IF c[Fields[i]] = "" THEN <<Fields[i]>> \o Missing(c, i + 1)
    ELSE Missing(c, i + 1)

\* Config.validate: the messages of the error it returns, <<>> for nil
validateFirst(c) ==
    LET m == Missing(c, 1)
    IN  IF m = <<>> THEN <<>> ELSE <<Required(m[1])>>
validate(c) ==
    LET m == Missing(c, 1)
    IN  [i \in DOMAIN m |-> Required(m[i])]

\* Config.readFromEnv: the fields as the .env file gives them, "" for a
\* key the file does not have
readFromEnv(c, env) == [f \in FieldSet |-> env[f]]

\* a flag that the command line does not give
NotGiven == "<not given>"

\* Config.readFromFlags: flag.StringVar stores the default, "", into the
\* field when it registers the flag, and flag.Parse then stores the value
\* of each flag the command line gives
readFromFlags(c, args) ==
    [f \in FieldSet |-> IF args[f] = NotGiven THEN "" ELSE args[f]]

\* main parses the flags only if the configuration read from the
\* environment is not valid (main.go:294-296)
ParseFlags(errs) == errs # <<>>

EmptyConfig == [f \in FieldSet |-> ""]

\* main has loaded its configuration and started the scheduler
Booted ==
    [pc |-> "serving", dotenv |-> TRUE, env |-> EmptyConfig,
     args |-> EmptyConfig, cfg |-> EmptyConfig, errs |-> <<>>,
     scheduler |-> TRUE]

----------------------------------------------------------------------------
(* Paths and the file system *)

\* filepath.Join(dir, name)
Join(dir, name) == Append(dir, name)
\* filepath.Base(path)
Base(path) == IF path = <<>> THEN "." ELSE path[Len(path)]
\* filepath.Rel(dir, path), for a path below dir
Rel(dir, path) == SubSeq(path, Len(dir) + 1, Len(path))
\* path lies below dir, at any depth
Below(dir, path) ==
    Len(path) > Len(dir) /\ SubSeq(path, 1, Len(dir)) = dir
\* path is an immediate entry of dir
ChildOf(dir, path) == Below(dir, path) /\ Len(path) = Len(dir) + 1

\* the content of a file: plain data, or the entries of a zip archive
Data(d) == [data |-> d, entries |-> <<>>]
Zip(es) == [data |-> "zip", entries |-> es]
NoContent == Data("")

FileEntry(t, c) == [dir |-> FALSE, mtime |-> t, content |-> c]
DirEntry(t) == [dir |-> TRUE, mtime |-> t, content |-> NoContent]

Exists(f, p) == p \in DOMAIN f
Put(f, p, e) == [q \in DOMAIN f \cup {p} |-> IF q = p THEN e ELSE f[q]]
Without(f, ps) == [q \in DOMAIN f \ ps |-> f[q]]
IsFile(f, p) == Exists(f, p) /\ ~f[p].dir
IsDir(f, p) == Exists(f, p) /\ f[p].dir
NonEmptyDir(f, p) == IsDir(f, p) /\ \E q \in DOMAIN f : ChildOf(p, q)

----------------------------------------------------------------------------
(* purgeDir, main.go:28-57 *)

\* os.ReadDir(dir): the immediate entries of dir, files and directories
ReadDir(f, dir) == {p \in DOMAIN f : ChildOf(dir, p)}

\* uint64(a) < uint64(b) for int64 a and b: the conversion maps the
\* negative numbers above the others, in their order
Uint64Less(a, b) == IF (a < 0) = (b < 0) THEN a < b ELSE b < 0

\* main.go:44-47: the file's modification timestamp is older than the filter
OlderOrEqual(modTime, filter) == Uint64Less(modTime, filter) \/ modTime = filter
Older(modTime, filter) == Uint64Less(modTime, filter)

\* os.Remove(path) fails on a directory that is not empty
RemoveFails(f, p, fault) == p \in fault.remove \/ NonEmptyDir(f, p)

\* a file as distinct from a later file written under the same path: a
\* file that a purge removes was last written before the filter, a file
\* written afterwards carries a later modification time
FileAt(f, p) == [path |-> p, mtime |-> f[p].mtime]

\* a loop that would give up at a failure and leave the directory alone
purgeDirGivesUp(f, dir, filter, fault) ==
    LET files     == ReadDir(f, dir)
        statErr   == files \cap fault.stat
        old       == {p \in files \ statErr :
                         Older(UnixMilli(f[p].mtime), filter)}
        removeErr == {p \in old : RemoveFails(f, p, fault)}
        deleted   == IF statErr \cup removeErr = {} THEN old ELSE {}
    IN  [fs        |-> Without(f, deleted),
         readErr   |-> FALSE,
         statErr   |-> statErr,
         removeErr |-> removeErr,
         deleted   |-> deleted,
         purged    |-> {FileAt(f, p) : p \in deleted}]

\* fault: readDir (os.ReadDir fails), stat (the entries whose Info fails),
\* remove (the entries whose os.Remove fails).  purged: the files removed
purgeDirKeepsGoing(f, dir, filter, fault) ==
    LET files     == ReadDir(f, dir)
        statErr   == files \cap fault.stat
        old       == {p \in files \ statErr :
                         Older(UnixMilli(f[p].mtime), filter)}
        removeErr == {p \in old : RemoveFails(f, p, fault)}
        deleted   == old \ removeErr
    IN  [fs        |-> Without(f, deleted),
         readErr   |-> FALSE,
         statErr   |-> statErr,
         removeErr |-> removeErr,
         deleted   |-> deleted,
         purged    |-> {FileAt(f, p) : p \in deleted}]
purgeDir(f, dir, filter, fault) ==
    IF fault.readDir
    THEN [fs        |-> f,
          readErr   |-> TRUE,
          statErr   |-> {},
          removeErr |-> {},
          deleted   |-> {},
          purged    |-> {}]
    ELSE purgeDirKeepsGoing(f, dir, filter, fault)

NoPurgeFault == [readDir |-> FALSE, stat |-> {}, remove |-> {}]

\* the faults purgeDir can meet in f, at most n of them at once; a remove
\* fault is listed only for an entry purgeDir tries to remove
PurgeFaults(f, dir, filter, n) ==
    {NoPurgeFault}
    \cup (IF n >= 1
          THEN {[readDir |-> TRUE, stat |-> {}, remove |-> {}]}
          ELSE {})
    \cup {[readDir |-> FALSE, stat |-> s, remove |-> r] :
            <<s, r>> \in
              {sr \in (SUBSET ReadDir(f, dir)) \X (SUBSET ReadDir(f, dir)) :
                 /\ sr[1] \cap sr[2] = {}
                 /\ Cardinality(sr[1]) + Cardinality(sr[2]) \in 1..n
                 /\ \A p \in sr[2] :
                      /\ Older(UnixMilli(f[p].mtime), filter)
                      /\ ~NonEmptyDir(f, p)}}

PurgeFaultCount(fault) ==
    IF fault.readDir THEN 1
    ELSE Cardinality(fault.stat) + Cardinality(fault.remove)

----------------------------------------------------------------------------
(* zipDir, main.go:60-123 *)

\* the instants the clock takes: each midnight, each 23:50, and (Late) an
\* instant halfway between 23:50 and the midnight after it
Late ==
    {(DateAt(d, JobHour, JobMinute) + DateAt(d + 1, 0, 0)) \div 2 :
        d \in 1..MaxDay}
Marks ==
    {DateAt(d, 0, 0) : d \in 1..(MaxDay + 1)}
    \cup {DateAt(d, JobHour, JobMinute) : d \in 1..MaxDay}
    \cup Late

\* %d of a uint64: a timestamp before the epoch has wrapped around 2^64
\* (= 18446744073709551616) in the conversion of main.go:169
Uint64String(x) ==
    IF x >= 0 THEN ToString(x)
    ELSE "18446744073" \o ToString(709551616 + x)

\* fmt.Sprintf("%s-%d.zip", filename, filter), main.go:175
ZipName(filename, filterMs) ==
    filename \o "-" \o Uint64String(filterMs) \o ".zip"
\* the cutoffs a run can compute, and the cutoff of the run of day 0
Cutoffs ==
    {Filter(t) : t \in Marks} \cup {Filter(DateAt(0, JobHour, JobMinute))}
ArchiveNames == {ZipName(Cfg.Zipfile, UnixMilli(x)) : x \in Cutoffs}
FilterOfName(n) ==
    CHOOSE x \in Cutoffs : n = ZipName(Cfg.Zipfile, UnixMilli(x))

\* the first nine digits of the decimal string of a uint64, as a number
\* (the string filled up with zeros if it is shorter)
RECURSIVE NineDigits(_)
NineDigits(x) ==
    IF x < 0 THEN 184467440
    ELSE IF x = 0 THEN 0
    ELSE IF x < 100000000 THEN NineDigits(10 * x)
    ELSE x

\* the lexical order of the file names in use, which fs.WalkDir follows:
\* a.sql < c.sql < dump-<filter>.zip < edge.sql < new.sql < sub < test.zip,
\* and the archives among themselves in the order of their digit strings
\* (dump-172200000.zip < dump-85800000.zip)
LexKey(n) ==
    IF n = "a.sql" THEN 1
    ELSE IF n = "c.sql" THEN 2
    ELSE IF n \in ArchiveNames
         THEN 3 + NineDigits(UnixMilli(FilterOfName(n))) \div 1000
    ELSE IF n = "edge.sql" THEN 1000011
    ELSE IF n = "new.sql" THEN 1000012
    ELSE IF n = "sub" THEN 1000013
    ELSE 1000014

\* p is visited before q: a directory before its contents, the entries of
\* one directory in lexical order
WalkBefore(p, q) ==
    \E i \in 1..(Len(q)) :
        /\ \A j \in 1..(i - 1) : j <= Len(p) /\ p[j] = q[j]
        /\ \/ i = Len(p) + 1
           \/ i <= Len(p) /\ LexKey(p[i]) < LexKey(q[i])

RECURSIVE WalkOrder(_)
WalkOrder(ps) ==
    IF ps = {} THEN <<>>
    ELSE LET first == CHOOSE p \in ps : \A q \in ps \ {p} : WalkBefore(p, q)
         IN  <<first>> \o WalkOrder(ps \ {first})

\* filepath.WalkDir(dir): every path below dir, in walk order
WalkDir(f, dir) == WalkOrder({p \in DOMAIN f : Below(dir, p)})

\* Sizes are counted in units of what the zip writer holds back before it
\* writes to the file (the block its compressor collects and the 4096
\* bytes of its bufio.Writer): a small file counts 0, a large data file 1,
\* an archive as much as the contents of its entries, which deflate
\* cannot shrink
WriterHolds == 1
RECURSIVE Units(_, _)
RECURSIVE UnitsOf(_, _)
Units(c, lg) ==
    IF c.data = "zip" THEN UnitsOf(c.entries, lg)
    ELSE IF c.data # "" /\ lg THEN 1
    ELSE 0
UnitsOf(es, lg) ==
    IF es = <<>> THEN 0
    ELSE Units(Head(es).content, lg) + UnitsOf(Tail(es), lg)

\* one round of io.Copy(zipEntry, file) on the destination itself
\* (main.go:106): it reads a unit of what the file holds beyond the
\* reader's offset and writes it to the entry; the writer keeps it while
\* it has room and otherwise appends a unit to the file.  At the end of
\* the file the copy is over.
CopyRound(unread, held) ==
    IF unread = 0 THEN [unread |-> 0, held |-> held]
    ELSE IF held < WriterHolds
         THEN [unread |-> unread - 1, held |-> held + 1]
         ELSE [unread |-> unread, held |-> held]

\* the copy never reaches the end of the file: a round leaves the reader
\* and the writer where they were, with data still to read
RECURSIVE CopyNeverEnds(_, _)
CopyNeverEnds(unread, held) ==
    LET next == CopyRound(unread, held) IN
    IF unread = 0 THEN FALSE
    ELSE IF next.unread = unread /\ next.held = held THEN TRUE
    ELSE CopyNeverEnds(next.unread, next.held)

\* what io.Copy reads of the file at path p (main.go:99-106).  The
\* destination itself, when the walk meets it, holds only what the zip
\* writer has written to the file so far: nothing yet, or, when the files
\* are large, the entries written before it
ReadFile(f, p, zipPath, written, flushed) ==
    IF p = zipPath
    THEN IF UnitsOf(written, flushed) > 0 THEN Zip(written) ELSE NoContent
    ELSE f[p].content

\* the entry name zipDir gives the file at path (main.go:87-93)
EntryName(dir, path) == Rel(dir, path)

\* the walk callback over walk[i..], main.go:76-112: entries written so
\* far in acc.  fault.failAt is the position of the walk at which an error
\* occurs (0: none): at a directory, the error WalkDir hands the callback;
\* at a file, the failure of os.Open or io.Copy, after zipWriter.Create
\* has started the entry (a failure of zipWriter.Create is a failed write
\* of the entry before)
RECURSIVE VisitOn(_, _, _, _, _, _, _)
VisitOn(f, dir, zipPath, walk, i, acc, fault) ==
    IF i > Len(walk)
    THEN [entries |-> acc, err |-> fault.failAt \in 1..Len(walk),
          looping |-> FALSE]
    ELSE LET p == walk[i] IN
         IF f[p].dir
         THEN VisitOn(f, dir, zipPath, walk, i + 1, acc, fault)
         ELSE IF /\ p = zipPath /\ i # fault.failAt
                 /\ CopyNeverEnds(UnitsOf(acc, fault.flushed), 0)
         THEN [entries |-> Append(acc, [name    |-> EntryName(dir, p),
                                        content |-> Zip(acc)]),
               err |-> FALSE, looping |-> TRUE]
         ELSE VisitOn(f, dir, zipPath, walk, i + 1,
                      Append(acc,
                             [name    |-> EntryName(dir, p),
                              content |-> IF i = fault.failAt THEN NoContent
                                          ELSE ReadFile(f, p, zipPath, acc,
                                                        fault.flushed)]),
                      fault)
RECURSIVE Visit(_, _, _, _, _, _, _)
Visit(f, dir, zipPath, walk, i, acc, fault) ==
    IF i > Len(walk)
    THEN [entries |-> acc, err |-> FALSE, looping |-> FALSE]
    ELSE LET p == walk[i] IN
         IF i = fault.failAt
         THEN [entries |-> IF ~f[p].dir
                           THEN Append(acc, [name    |-> EntryName(dir, p),
                                             content |-> NoContent])
                           ELSE acc,
               err |-> TRUE, looping |-> FALSE]
         ELSE IF f[p].dir
         THEN Visit(f, dir, zipPath, walk, i + 1, acc, fault)
         ELSE IF /\ p = zipPath
                 /\ CopyNeverEnds(UnitsOf(acc, fault.flushed), 0)
         THEN [entries |-> Append(acc, [name    |-> EntryName(dir, p),
                                        content |-> Zip(acc)]),
               err |-> FALSE, looping |-> TRUE]
         ELSE Visit(f, dir, zipPath, walk, i + 1,
                    Append(acc,
                           [name    |-> EntryName(dir, p),
                            content |-> ReadFile(f, p, zipPath, acc,
                                                 fault.flushed)]),
                    fault)

\* the files of the walk, in its order: the i-th entry of the archive is
\* made for the i-th of them
WalkedFiles(f, dir) ==
    LET walk == WalkDir(f, dir)
        NotDir(p) == ~f[p].dir
    IN  SelectSeq(walk, NotDir)

\* fault: create (os.Create fails), failAt (above), flushed
\* (what was written before the destination is read has reached the
\* disk), close (zipWriter.Close fails).  t is the time of the writes.
\* sources: the files the entries were made for; failedAt: the path at
\* which the walk met its error, <<>> if it met none; looping: zipDir has
\* not returned, its walk is in a copy of the destination that does not
\* end, with unread units of the file before the reader
zipDir(f, dir, zipPath, t, fault) ==
    IF fault.create \/ IsDir(f, zipPath)
    THEN [fs |-> f, err |-> TRUE, entries |-> <<>>, sources |-> {},
          failedAt |-> <<>>, looping |-> FALSE, unread |-> 0]
    ELSE LET created == Put(f, zipPath, FileEntry(t, NoContent))
             walk    == WalkDir(created, dir)
             walked  == Visit(created, dir, zipPath, walk, 1, <<>>, fault)
             files   == WalkedFiles(created, dir)
         IN  [fs      |-> Put(f, zipPath, FileEntry(t, Zip(walked.entries))),
              err     |-> ~walked.looping /\ (walked.err \/ fault.close),
              entries |-> walked.entries,
              sources |-> {FileAt(created, files[i]) :
                              i \in 1..Len(walked.entries)},
              failedAt |-> IF ~walked.looping /\ fault.failAt \in 1..Len(walk)
                           THEN walk[fault.failAt] ELSE <<>>,
              looping |-> walked.looping,
              unread  |-> IF walked.looping
                          THEN Units(walked.entries[Len(walked.entries)]
                                         .content, fault.flushed)
                          ELSE 0]

NoZipFault ==
    [create |-> FALSE, failAt |-> 0, flushed |-> FALSE, close |-> FALSE]

\* the faults zipDir can meet in f: none, or (if n >= 1) one of them
ZipFaults(f, dir, zipPath, flushed, n) ==
    LET below == {p \in DOMAIN f \cup {zipPath} : Below(dir, p)}
        none  == [NoZipFault EXCEPT !.flushed = flushed]
    IN  {none}
        \cup (IF n >= 1
              THEN {[none EXCEPT !.create = TRUE],
                    [none EXCEPT !.close = TRUE]}
                   \cup {[none EXCEPT !.failAt = i] :
                            i \in 1..Cardinality(below)}
              ELSE {})

ZipFaultCount(fault) ==
    IF fault.create \/ fault.close \/ fault.failAt > 0 THEN 1 ELSE 0

----------------------------------------------------------------------------
(* uploadZip, main.go:133-162 *)

ContentType == "application/zip"

\* the object uploadZip names: filepath.Base(zipPath), main.go:147
RECURSIVE PathString(_)
PathString(p) ==
    IF p = <<>> THEN ""
    ELSE IF Len(p) = 1 THEN p[1]
    ELSE p[1] \o "/" \o PathString(Tail(p))
ObjectNamePath(zipPath) == PathString(zipPath)
ObjectName(zipPath) == Base(zipPath)

\* PutObject replaces the object of that name in the bucket
PutObject(store, obj) ==
    {o \in store : ~(o.bucket = obj.bucket /\ o.name = obj.name)} \cup {obj}

\* the local file is removed once FPutObject has returned without error
RemoveAlways(putErr) == TRUE
RemoveAfterUpload(putErr) == ~putErr

\* fault: client (minio.New fails), put ("ok"; "error": FPutObject fails;
\* "lost": the object is stored but FPutObject reports an error), remove
\* (os.Remove fails)
uploadZip(f, store, zipPath, cfg, fault) ==
    IF fault.client
    THEN [fs |-> f, remote |-> store, clientErr |-> TRUE, putErr |-> FALSE,
          removeErr |-> FALSE, confirmed |-> FALSE]
    ELSE LET obj    == [bucket      |-> cfg.Bucket,
                        name        |-> ObjectName(zipPath),
                        contentType |-> ContentType,
                        content     |-> IF IsFile(f, zipPath)
                                        THEN f[zipPath].content
                                        ELSE NoContent]
             putErr == ~IsFile(f, zipPath) \/ fault.put # "ok"
             stored == IsFile(f, zipPath) /\ fault.put \in {"ok", "lost"}
             remove == RemoveAfterUpload(putErr)
         IN  [fs        |-> IF remove /\ ~fault.remove /\ Exists(f, zipPath)
                            THEN Without(f, {zipPath})
                            ELSE f,
              remote    |-> IF stored THEN PutObject(store, obj) ELSE store,
              clientErr |-> FALSE,
              putErr    |-> putErr,
              removeErr |-> remove /\ (fault.remove \/ ~Exists(f, zipPath)),
              confirmed |-> ~putErr]

NoUploadFault == [client |-> FALSE, put |-> "ok", remove |-> FALSE]

UploadFaults(n) ==
    {NoUploadFault}
    \cup (IF n >= 1
          THEN {[NoUploadFault EXCEPT !.client = TRUE],
                [NoUploadFault EXCEPT !.put = "error"],
                [NoUploadFault EXCEPT !.put = "lost"],
                [NoUploadFault EXCEPT !.remove = TRUE]}
          ELSE {})

UploadFaultCount(fault) == IF fault = NoUploadFault THEN 0 ELSE 1

----------------------------------------------------------------------------
(* The initial directory *)

\* the first instant of the clock: midnight of day 1.  The first run is
\* due at 23:50 of day 1 and its filter is 23:50 of day 0.
StartTime == DateAt(1, 0, 0)

\* The entries the source directory can hold at start: a.sql, sub and
\* sub/c.sql, last modified at midnight of day 0; edge.sql, last modified
\* at 23:50 of day 0; new.sql, last modified at midnight of day 1.
Tree(names) ==
    LET dir == Cfg.SourceDir
        entry == [n \in {"a.sql", "edge.sql", "new.sql", "sub", "c.sql"} |->
                    IF n = "sub" THEN DirEntry(0)
                    ELSE IF n = "edge.sql"
                         THEN FileEntry(DateAt(0, FilterHour, FilterMinute),
                                        Data(n))
                    ELSE IF n = "new.sql"
                         THEN FileEntry(StartTime, Data(n))
                    ELSE FileEntry(0, Data(n))]
        path(n) == IF n = "c.sql" THEN Join(Join(dir, "sub"), n)
                   ELSE Join(dir, n)
    IN  [p \in {path(n) : n \in names} |->
            entry[CHOOSE n \in names : path(n) = p]]

\* the archive the run of day 0 left behind, if the service ran on day 0
\* with a.sql in the directory: written at 23:50 of day 0, it holds the
\* entry of a.sql and the entry of itself, which is empty or, if a.sql is
\* large, what the archive held when the walk read it.  Of that directory
\* the archive alone is left on day 1.
LeftoverName ==
    ZipName(Cfg.Zipfile, UnixMilli(Filter(DateAt(0, JobHour, JobMinute))))
Leftover(lg) ==
    LET first == <<[name |-> <<"a.sql">>, content |-> Data("a.sql")]>>
    IN  FileEntry(DateAt(0, JobHour, JobMinute),
                  Zip(Append(first,
                             [name    |-> <<LeftoverName>>,
                              content |-> IF lg THEN Zip(first)
                                          ELSE NoContent])))
LeftoverTree(lg) ==
    Put(Tree({}), Join(Cfg.SourceDir, LeftoverName), Leftover(lg))

InitTrees ==
    {Tree({"a.sql", "edge.sql", "new.sql"}),
     Tree({"a.sql", "sub", "c.sql"}),
     Tree({"new.sql", "sub"}),
     LeftoverTree(FALSE),
     LeftoverTree(TRUE)}

\* whether the files are larger than the zip writer's buffer: either way
\* for the first tree, small files for the next two, and as the archive
\* of day 0 has it
LargeIn(f) ==
    IF f = Tree({"a.sql", "edge.sql", "new.sql"}) THEN BOOLEAN
    ELSE IF f = LeftoverTree(TRUE) THEN {TRUE}
    ELSE {FALSE}

----------------------------------------------------------------------------
(* The job goroutines *)

\* the runs, numbered in the order the scheduler starts them: one goroutine
\* for each trigger, at most one trigger on each day
Slots == 1..MaxDay

\* pc: "Idle" (not started yet, or returned), "Started" (the scheduler has
\* started the run), "Purging" (in purgeDir), "Archiving" (in zipDir).
\* "Copying" (in zipDir, in a copy of the destination that does not end).
\* The other fields record the run: the instant read at main.go:168 (at),
\* the filter computed from it at main.go:169,
\* what purgeDir and zipDir did, whether archive called uploadZip, and in
\* a copy of the destination what is unread and what the writer holds.
IdleRun ==
    [pc        |-> "Idle",
     at        |-> 0,
     filter    |-> 0,
     zipPath   |-> <<>>,
     readErr   |-> FALSE,
     statErr   |-> {},
     removeErr |-> {},
     deleted   |-> {},
     purged    |-> {},
     zipErr    |-> FALSE,
     entries   |-> <<>>,
     sources   |-> {},
     failedAt  |-> <<>>,
     uploaded  |-> FALSE,
     unread    |-> 0,
     held      |-> 0]

NoTest ==
    [pc |-> "none", zipPath |-> <<>>, before |-> <<>>, clientErr |-> FALSE,
     putErr |-> FALSE, removeErr |-> FALSE, confirmed |-> FALSE]

Executing(r) == runs[r].pc # "Idle"
Returned(r) == runs[r].pc = "Idle" /\ r <= started

Init ==
    /\ now = StartTime
    /\ fs \in InitTrees
    /\ remote = {}
    /\ proc = "running"
    /\ signalled = FALSE
    /\ nextRun = NextTrigger(StartTime)
    /\ started = 0
    /\ runs = [r \in Slots |-> IdleRun]
    /\ large \in LargeIn(fs)
    /\ disturbed = 0
    /\ test = NoTest
    /\ boot = Booted

----------------------------------------------------------------------------
(* The scheduler, main.go:331-353 *)

\* s.NewJob is given no gocron.WithSingletonMode and no concurrency limit:
\* a trigger starts the job in a new goroutine whether or not an earlier
\* run is still in flight
SchedulerStarts(inFlight) == TRUE

\* the job's timer fires at nextRun: the scheduler starts archive in a
\* goroutine and schedules the next day's trigger.  Nothing stops the
\* scheduler before the process exits.
Fire ==
    /\ proc # "exited"
    /\ now = nextRun
    /\ started < MaxDay
    /\ SchedulerStarts(\E r \in Slots : Executing(r))
    /\ runs' = [runs EXCEPT ![started + 1].pc = "Started"]
    /\ started' = started + 1
    /\ nextRun' = NextTrigger(now + 1)
    /\ UNCHANGED <<now, fs, remote, proc, signalled, large, disturbed, test,
                   boot>>

\* the instants at which something can differ: the midnights, the
\* triggers, and an instant late on the day of the trigger while a started
\* run has yet to read the clock
Interesting ==
    IF \E r \in Slots : runs[r].pc = "Started" THEN Marks ELSE Marks \ Late

\* time passes, up to the next instant of interest; a due trigger fires
\* before the clock moves on, and handleTermination returns within minutes
\* of cancel()
Tick ==
    /\ proc = "running"
    /\ now # nextRun
    /\ \E t \in Interesting :
          /\ t > now
          /\ \A u \in Interesting : u > now => t <= u
          /\ now' = t
    /\ IF \E r \in Slots : Executing(r)
       THEN disturbed < MaxDisturbances /\ disturbed' = disturbed + 1
       ELSE disturbed' = disturbed
    /\ UNCHANGED <<fs, remote, proc, signalled, nextRun, started, runs, large,
                   test, boot>>

----------------------------------------------------------------------------
(* archive, main.go:166-180 *)

\* main.go:175
ZipPath(dir, filename, filter) ==
    Join(dir, ZipName(filename, UnixMilli(filter)))

\* main.go:178-179: the call of uploadZip is commented out
ArchiveUploads == TRUE
ArchiveCallsUpload == FALSE

\* the stages log their errors with logger.Error() and return: the process
\* goes on (main.go:31-32, 68-69, 114-115, 120-121)
ExitOnError(p, err) == IF err THEN "exited" ELSE p
AfterStage(p, err) == p

\* the order of archive's statements, main.go:168-180: the clock, purgeDir,
\* zipDir, return.  purgeDir and zipDir return nothing, so archive goes on
\* whether or not they failed.
StageAfterSwapped(pc, err) ==
    IF pc = "Started" THEN "Archiving"
    ELSE IF pc = "Archiving" THEN "Purging"
    ELSE "Idle"
StageAfterAbort(pc, err) ==
    IF pc = "Started" THEN "Purging"
    ELSE IF pc = "Purging" /\ ~err THEN "Archiving"
    ELSE "Idle"
StageAfter(pc, err) ==
    IF pc = "Started" THEN "Purging"
    ELSE IF pc = "Purging" THEN "Archiving"
    ELSE "Idle"

\* main.go:168-169: archive reads the clock and computes the filter
Begin(r) ==
    /\ proc # "exited"
    /\ runs[r].pc = "Started"
    /\ runs' = [runs EXCEPT ![r].pc = StageAfter("Started", FALSE),
                            ![r].at = now,
                            ![r].filter = Filter(now)]
    /\ UNCHANGED <<now, fs, remote, proc, signalled, nextRun, started, large,
                   disturbed, test, boot>>

\* main.go:172: purgeDir runs and returns
PurgeStage(r) ==
    /\ proc # "exited"
    /\ runs[r].pc = "Purging"
    /\ \E fault \in PurgeFaults(fs, Cfg.SourceDir, UnixMilli(runs[r].filter),
                                MaxDisturbances - disturbed) :
          LET res == purgeDir(fs, Cfg.SourceDir, UnixMilli(runs[r].filter),
                              fault)
          IN  /\ fs' = res.fs
              /\ runs' = [runs EXCEPT ![r].pc = StageAfter("Purging",
                                                            res.readErr),
                                      ![r].readErr = res.readErr,
                                      ![r].statErr = res.statErr,
                                      ![r].removeErr = res.removeErr,
                                      ![r].deleted = res.deleted,
                                      ![r].purged = res.purged]
              /\ disturbed' = disturbed + PurgeFaultCount(fault)
              /\ proc' = AfterStage(proc, res.readErr \/ res.statErr # {}
                                          \/ res.removeErr # {})
    /\ UNCHANGED <<now, remote, signalled, nextRun, started, large, test,
                   boot>>

\* main.go:175-180: zipDir runs and returns, and so does archive; or
\* zipDir runs up to the copy of its destination that does not end
ZipStage(r) ==
    /\ proc # "exited"
    /\ runs[r].pc = "Archiving"
    /\ LET zipPath == ZipPath(Cfg.SourceDir, Cfg.Zipfile, runs[r].filter) IN
       \E fault \in ZipFaults(fs, Cfg.SourceDir, zipPath, large,
                               MaxDisturbances - disturbed) :
       \E ufault \in IF ArchiveCallsUpload
                     THEN UploadFaults(MaxDisturbances - disturbed
                                       - ZipFaultCount(fault))
                     ELSE {NoUploadFault} :
          LET zipped == zipDir(fs, Cfg.SourceDir, zipPath, now, fault)
              up     == uploadZip(zipped.fs, remote, zipPath, Cfg, ufault)
              calls  == ArchiveCallsUpload /\ ~zipped.looping
          IN  /\ zipped.looping
                 => ZipFaultCount(fault) + UploadFaultCount(ufault) = 0
              /\ fs' = IF calls THEN up.fs ELSE zipped.fs
              /\ remote' = IF calls THEN up.remote ELSE remote
              /\ runs' = [runs EXCEPT ![r].pc = IF zipped.looping
                                                THEN "Copying"
                                                ELSE StageAfter("Archiving",
                                                                zipped.err),
                                      ![r].zipPath = zipPath,
                                      ![r].zipErr = zipped.err,
                                      ![r].entries = zipped.entries,
                                      ![r].sources = zipped.sources,
                                      ![r].failedAt = zipped.failedAt,
                                      ![r].uploaded = calls,
                                      ![r].unread = zipped.unread]
              /\ disturbed' = disturbed + ZipFaultCount(fault)
                                  + UploadFaultCount(ufault)
              /\ proc' = AfterStage(proc, zipped.err)
    /\ UNCHANGED <<now, signalled, nextRun, started, large, test, boot>>

\* the file at p has been written at instant t
Touch(f, p, t) == IF Exists(f, p) THEN [f EXCEPT ![p].mtime = t] ELSE f

\* main.go:106: one more round of io.Copy on the destination
CopyStep(r) ==
    /\ proc # "exited"
    /\ runs[r].pc = "Copying"
    /\ LET next == CopyRound(runs[r].unread, runs[r].held) IN
          runs' = [runs EXCEPT ![r].unread = next.unread,
                               ![r].held = next.held]
    /\ fs' = Touch(fs, runs[r].zipPath, now)
    /\ UNCHANGED <<now, remote, proc, signalled, nextRun, started, large,
                   disturbed, test, boot>>

\* main.go:106-116: a write of the copy fails (the disk is full, or an I/O
\* error); the callback returns the error, the walk stops, zipDir logs it
\* and returns, and so does archive
CopyFails(r) ==
    /\ proc # "exited"
    /\ runs[r].pc = "Copying"
    /\ disturbed < MaxDisturbances
    /\ disturbed' = disturbed + 1
    /\ runs' = [runs EXCEPT ![r].pc = StageAfter("Archiving", TRUE),
                            ![r].zipErr = TRUE,
                            ![r].failedAt = runs[r].zipPath]
    /\ fs' = Touch(fs, runs[r].zipPath, now)
    /\ proc' = AfterStage(proc, TRUE)
    /\ UNCHANGED <<now, remote, signalled, nextRun, started, large, test,
                   boot>>

----------------------------------------------------------------------------
(* handleTermination and the end of main, main.go:183-200, 357-360 *)

\* an interrupt signal arrives and handleTermination calls cancel()
Interrupt ==
    /\ proc = "running"
    /\ proc' = "cancelled"
    /\ signalled' = TRUE
    /\ UNCHANGED <<now, fs, remote, nextRun, started, runs, large, disturbed,
                   test, boot>>

\* handleTermination sees ctx.Done() and returns, wg.Wait() returns and
\* main returns: the process exits, whatever its goroutines are doing
Exit ==
    /\ proc = "cancelled"
    /\ proc' = "exited"
    /\ UNCHANGED <<now, fs, remote, signalled, nextRun, started, runs, large,
                   disturbed, test, boot>>

Next ==
    \/ Fire
    \/ Tick
    \/ \E r \in Slots : Begin(r)
    \/ \E r \in Slots : PurgeStage(r)
    \/ \E r \in Slots : ZipStage(r)
    \/ \E r \in Slots : CopyStep(r)
    \/ \E r \in Slots : CopyFails(r)
    \/ Interrupt
    \/ Exit

Spec == Init /\ [][Next]_vars

----------------------------------------------------------------------------
(* TestUploadZip, main_test.go:57-103: zipDir into test.zip, outside the  *)
(* directory it zips, then uploadZip, then the removal of test.zip        *)

\* "test.zip", in the working directory of the test
TestZipPath == <<"zdts3", "test.zip">>

\* an object of the archive's name that an earlier upload left in the bucket
StaleObject ==
    [bucket      |-> Cfg.Bucket,
     name        |-> Base(TestZipPath),
     contentType |-> "text/plain",
     content     |-> Data("stale")]

UploadInit ==
    /\ now = StartTime
    /\ fs \in InitTrees
    /\ remote \in {{}, {StaleObject}}
    /\ proc = "running"
    /\ signalled = FALSE
    /\ nextRun = NextTrigger(StartTime)
    /\ started = 0
    /\ runs = [r \in Slots |-> IdleRun]
    /\ large \in BOOLEAN
    /\ disturbed = 0
    /\ test = [NoTest EXCEPT !.pc = "start", !.zipPath = TestZipPath]
    /\ boot = Booted

\* main_test.go:73-77: zipDir, and the test goes on if the zip file exists
TestZip ==
    /\ test.pc = "start"
    /\ \E fault \in ZipFaults(fs, Cfg.SourceDir, test.zipPath, large,
                               MaxDisturbances - disturbed) :
          LET zipped == zipDir(fs, Cfg.SourceDir, test.zipPath, now, fault)
          IN  /\ fs' = zipped.fs
              /\ disturbed' = disturbed + ZipFaultCount(fault)
              /\ test' = [test EXCEPT
                            !.pc = IF Exists(zipped.fs, test.zipPath)
                                   THEN "zipped" ELSE "failed"]
    /\ UNCHANGED <<now, remote, proc, signalled, nextRun, started, runs,
                   large, boot>>

\* main_test.go:98: uploadZip runs and returns
TestUpload ==
    /\ test.pc = "zipped"
    /\ \E fault \in UploadFaults(MaxDisturbances - disturbed) :
          LET up == uploadZip(fs, remote, test.zipPath, Cfg, fault)
          IN  /\ fs' = up.fs
              /\ remote' = up.remote
              /\ disturbed' = disturbed + UploadFaultCount(fault)
              /\ test' = [test EXCEPT !.pc = "uploaded",
                                      !.before = <<fs[test.zipPath]>>,
                                      !.clientErr = up.clientErr,
                                      !.putErr = up.putErr,
                                      !.removeErr = up.removeErr,
                                      !.confirmed = up.confirmed]
    /\ UNCHANGED <<now, proc, signalled, nextRun, started, runs, large, boot>>

\* main_test.go:100-102: the test removes the zip file
TestRemove ==
    /\ test.pc = "uploaded"
    /\ fs' = Without(fs, {test.zipPath})
    /\ test' = [test EXCEPT !.pc = IF Exists(fs, test.zipPath)
                                   THEN "done" ELSE "failed"]
    /\ UNCHANGED <<now, remote, proc, signalled, nextRun, started, runs,
                   large, disturbed, boot>>

UploadNext ==
    \/ TestZip
    \/ TestUpload
    \/ TestRemove

UploadSpec == UploadInit /\ [][UploadNext]_vars

----------------------------------------------------------------------------
(* The start of main, main.go:278-353 *)

\* what the .env file and the command line can hold: a value or nothing
\* for each field
EnvFiles == [FieldSet -> {"", "env"}]
CommandLines == [FieldSet -> {NotGiven, "flag"}]

ConfigInit ==
    /\ now = StartTime
    /\ fs = Tree({"new.sql", "sub"})
    /\ remote = {}
    /\ proc = "running"
    /\ signalled = FALSE
    /\ nextRun = NextTrigger(StartTime)
    /\ started = 0
    /\ runs = [r \in Slots |-> IdleRun]
    /\ large = FALSE
    /\ disturbed = 0
    /\ test = NoTest
    /\ \E env \in EnvFiles, args \in CommandLines :
          \/ boot = [pc |-> "start", dotenv |-> TRUE, env |-> env,
                     args |-> args, cfg |-> EmptyConfig, errs |-> <<>>,
                     scheduler |-> FALSE]
          \/ /\ env = EmptyConfig
             /\ boot = [pc |-> "start", dotenv |-> FALSE, env |-> env,
                        args |-> args, cfg |-> EmptyConfig, errs |-> <<>>,
                        scheduler |-> FALSE]

\* main.go:287-291: cfg.readFromEnv(); main returns if godotenv.Read fails
ReadEnv ==
    /\ boot.pc = "start"
    /\ boot' = IF ~boot.dotenv
               THEN [boot EXCEPT !.pc = "returned"]
               ELSE [boot EXCEPT !.pc = "validate",
                                 !.cfg = readFromEnv(boot.cfg, boot.env)]
    /\ proc' = IF ~boot.dotenv THEN "exited" ELSE proc
    /\ UNCHANGED <<now, fs, remote, signalled, nextRun, started, runs, large,
                   disturbed, test>>

\* main.go:294-295: cfg.validate() on what the environment gave
ValidateEnv ==
    /\ boot.pc = "validate"
    /\ LET errs == validate(boot.cfg)
       IN  boot' = [boot EXCEPT !.errs = errs,
                                !.pc = IF ParseFlags(errs) THEN "flags"
                                       ELSE "configured"]
    /\ UNCHANGED <<now, fs, remote, proc, signalled, nextRun, started, runs,
                   large, disturbed, test>>

\* main.go:296: cfg.readFromFlags()
ReadFlags ==
    /\ boot.pc = "flags"
    /\ boot' = [boot EXCEPT !.pc = "revalidate",
                            !.cfg = readFromFlags(boot.cfg, boot.args)]
    /\ UNCHANGED <<now, fs, remote, proc, signalled, nextRun, started, runs,
                   large, disturbed, test>>

\* main.go:297-301: cfg.validate() again; main returns on an error
ValidateFlags ==
    /\ boot.pc = "revalidate"
    /\ LET errs == validate(boot.cfg)
       IN  /\ boot' = [boot EXCEPT !.errs = errs,
                                    !.pc = IF errs # <<>> THEN "returned"
                                           ELSE "configured"]
           /\ proc' = IF errs # <<>> THEN "exited" ELSE proc
    /\ UNCHANGED <<now, fs, remote, signalled, nextRun, started, runs, large,
                   disturbed, test>>

\* main.go:331-353: the scheduler is created, given the job, and started
StartScheduler ==
    /\ boot.pc = "configured"
    /\ boot' = [boot EXCEPT !.pc = "serving", !.scheduler = TRUE]
    /\ UNCHANGED <<now, fs, remote, proc, signalled, nextRun, started, runs,
                   large, disturbed, test>>

ConfigNext ==
    \/ ReadEnv
    \/ ValidateEnv
    \/ ReadFlags
    \/ ValidateFlags
    \/ StartScheduler

ConfigSpec == ConfigInit /\ [][ConfigNext]_vars

----------------------------------------------------------------------------
(* Properties *)

Dir == Cfg.SourceDir

\* the step is run r passing from stage a to stage b
Passes(r, a, b) == runs[r].pc = a /\ runs'[r].pc = b

\* the archive of run r has an entry named by path p relative to Dir
HasEntry(es, p) == \E i \in DOMAIN es : es[i].name = Rel(Dir, p)

\* a stage of run r has failed
PurgeFailed(r) ==
    runs[r].readErr \/ runs[r].statErr # {} \/ runs[r].removeErr # {}
Failed(r) == PurgeFailed(r) \/ runs[r].zipErr

\* C1: every run goes through purge, archive, upload in this order, no
\* stage starting before the previous one has returned, and a run whose
\* archive stage completes without error calls uploadZip before it returns
C1_StagesThenUpload ==
    [][\A r \in Slots :
          /\ runs'[r].pc # runs[r].pc =>
                \/ Passes(r, "Idle", "Started")
                \/ Passes(r, "Started", "Purging")
                \/ Passes(r, "Purging", "Archiving")
                \/ Passes(r, "Archiving", "Idle")
          /\ Passes(r, "Archiving", "Idle") /\ ~runs'[r].zipErr
                => runs'[r].uploaded]_vars

\* C2: when purgeDir meets no failure, every top-level file older than the
\* filter is gone afterwards, and every top-level file whose modification
\* time is at or after the filter is still there, unchanged
C2_PurgeBoundary ==
    [][\A r \in Slots :
          Passes(r, "Purging", "Archiving") /\ ~PurgeFailed(r)'
          => \A p \in DOMAIN fs :
                ChildOf(Dir, p) /\ ~fs[p].dir
                => IF UnixMilli(fs[p].mtime) < UnixMilli(runs[r].filter)
                   THEN p \notin DOMAIN fs'
                   ELSE p \in DOMAIN fs' /\ fs'[p] = fs[p]]_vars

\* a purge without failure has removed a.sql and kept edge.sql, whose
\* modification time is exactly the filter, and new.sql
C2_Witness ==
    \E r \in Slots :
        /\ runs[r].pc = "Archiving"
        /\ ~PurgeFailed(r)
        /\ Join(Dir, "a.sql") \in runs[r].deleted
        /\ Exists(fs, Join(Dir, "edge.sql"))
        /\ fs[Join(Dir, "edge.sql")].mtime = runs[r].filter
        /\ Exists(fs, Join(Dir, "new.sql"))
        /\ fs[Join(Dir, "new.sql")].mtime > runs[r].filter

\* C3: when zipDir, as archive calls it, completes without error, the
\* archive has for every file below the source directory an entry of its
\* relative path and of its content
C3_ArchiveComplete ==
    [][\A r \in Slots :
          Passes(r, "Archiving", "Idle") /\ ~runs'[r].zipErr
          => \A p \in DOMAIN fs' :
                Below(Dir, p) /\ ~fs'[p].dir
                => \E i \in DOMAIN runs'[r].entries :
                      /\ runs'[r].entries[i].name = Rel(Dir, p)
                      /\ runs'[r].entries[i].content = fs'[p].content]_vars

\* uploadZip has been called on an existing archive and has returned
Uploaded == test.pc = "uploaded"

\* the bucket holds the archive uploadZip was given, under the name n
Stored(n) ==
    \E o \in remote :
        /\ o.bucket = "backups"
        /\ o.name = n
        /\ o.contentType = "application/zip"
        /\ o.content = test.before[1].content

\* C4: when minio.New or FPutObject fails, the local archive is still there,
\* unchanged, when uploadZip returns; and on return either the local archive
\* exists or the store has confirmed the object
C4_UploadFailureKeepsLocal ==
    Uploaded =>
        /\ test.clientErr \/ test.putErr =>
              /\ Exists(fs, test.zipPath)
              /\ <<fs[test.zipPath]>> = test.before
        /\ \/ Exists(fs, test.zipPath)
           \/ test.confirmed /\ Stored("test.zip")

\* the transfer has failed and the local archive is still there
C4_Witness ==
    /\ Uploaded
    /\ test.putErr
    /\ ~test.confirmed
    /\ Exists(fs, test.zipPath)
    /\ ~Stored("test.zip")

C6_PurgedNotArchived ==
    [][\A r \in Slots :
          /\ runs'[r].pc = "Archiving" /\ runs[r].pc # "Archiving"
                => runs[r].pc = "Purging"
          /\ runs'[r].purged \cap runs'[r].sources = {}
          /\ runs'[r].purged = runs[r].purged
                \/ runs'[r].purged = {FileAt(fs, p) : p \in runs'[r].deleted}
          /\ Cardinality(runs'[r].sources) = Len(runs'[r].entries)]_vars

\* a run has deleted a.sql and then archived the directory
C6_Witness ==
    \E r \in Slots :
        /\ Returned(r)
        /\ ~runs[r].zipErr
        /\ Join(Dir, "a.sql") \in runs[r].deleted
        /\ Len(runs[r].entries) >= 2

\* C7: a run whose archive stage fails does not call uploadZip: it returns
\* to Idle with nothing uploaded
C7_FailedArchiveNoUpload ==
    \A r \in Slots :
        runs[r].zipErr =>
            /\ runs[r].pc = "Idle"
            /\ ~runs[r].uploaded
            /\ remote = {}

\* a run has returned after its walk failed, leaving a partial archive
C7_Witness ==
    \E r \in Slots :
        /\ Returned(r)
        /\ runs[r].zipErr
        /\ Exists(fs, runs[r].zipPath)

\* C8: when os.ReadDir fails in purgeDir, the purge deletes nothing and the
\* run goes on to zipDir over the unchanged directory
C8_ListingFailureStillArchives ==
    [][\A r \in Slots :
          /\ runs[r].pc = "Purging" /\ runs'[r].readErr
                => /\ fs' = fs
                   /\ runs'[r].deleted = {}
                   /\ runs'[r].pc = "Archiving"
          /\ Returned(r)' /\ runs'[r].readErr
                => runs'[r].zipPath # <<>>]_vars

\* a run whose listing failed has archived a.sql, which is older than its
\* filter
C8_Witness ==
    \E r \in Slots :
        /\ Returned(r)
        /\ runs[r].readErr
        /\ ~runs[r].zipErr
        /\ HasEntry(runs[r].entries, Join(Dir, "a.sql"))
        /\ Exists(fs, Join(Dir, "a.sql"))

\* C9: no two runs execute at the same time
C9_RunsSerialized ==
    Cardinality({r \in Slots : Executing(r)}) <= 1

\* the triggers that are due before t
TriggersBefore(t) ==
    {d \in 1..MaxDay : DateAt(d, 23, 50) < t}

\* C10: after a run in which a stage failed, and as long as no interrupt
\* signal has arrived, the process is running and every trigger that was
\* due has started a run
C10_FailureDoesNotStopSchedule ==
    (~signalled /\ \E r \in Slots : Failed(r)) =>
        /\ proc = "running"
        /\ started >= Cardinality(TriggersBefore(now))
        /\ nextRun >= now
        /\ now = nextRun /\ started < MaxDay => ENABLED Fire

\* the first run failed and the trigger of the next day has started the
\* second run
C10_Witness ==
    /\ ~signalled
    /\ Returned(1)
    /\ Failed(1)
    /\ started = 2
    /\ runs[2].pc = "Started"

----------------------------------------------------------------------------
(* Termination, main.go:183-200 and 357-360 *)

\* handleTermination and main are scheduled: once cancel() has been called
\* the select sees ctx.Done(), and wg.Wait() returns
FairSpec == Spec /\ WF_vars(Exit)

\* after an interrupt signal the process ends
TerminationCompletes == signalled ~> proc = "exited"

\* C11: once an interrupt signal has been delivered, no new run is started
C11_SignalStopsScheduler ==
    [][signalled => started' = started]_vars

\* C12: the process does not exit while a run is inside purgeDir or zipDir
C12_NoExitMidRun ==
    proc = "exited" => \A r \in Slots : runs[r].pc \notin {"Purging", "Archiving"}

----------------------------------------------------------------------------
(* The retention filter, main.go:167-172 *)

\* the run has read the clock and computed its filter
Begun(r) == runs[r].pc \in {"Purging", "Archiving"} \/ Returned(r)

\* 23:50:00 of calendar day d, in milliseconds
CutoffMillis(d) == (d * 24 * 3600 + 23 * 3600 + 50 * 60) * 1000

\* C13: the cutoff of a run is 23:50:00 of the calendar day before its
\* invocation, in milliseconds; two invocations on the same calendar day
\* have the same cutoff, and a later day gives a greater cutoff
C13_CutoffByCalendarDay ==
    \A r1, r2 \in Slots :
        Begun(r1) /\ Begun(r2) =>
            /\ UnixMilli(runs[r1].filter)
                  = CutoffMillis(DayOf(runs[r1].at) - 1)
            /\ DayOf(runs[r1].at) = DayOf(runs[r2].at)
                  => runs[r1].filter = runs[r2].filter
            /\ DayOf(runs[r1].at) < DayOf(runs[r2].at)
                  => runs[r1].filter < runs[r2].filter

\* two runs were invoked at different instants of one calendar day
C13_Witness ==
    \E r1, r2 \in Slots :
        /\ Begun(r1) /\ Begun(r2)
        /\ runs[r1].at # runs[r2].at
        /\ DayOf(runs[r1].at) = DayOf(runs[r2].at)

----------------------------------------------------------------------------
(* The purge loop, main.go:35-56 *)

\* C14: only top-level files are ever removed from the source directory:
\* no subdirectory, empty or not, and no file inside a subdirectory
C14_OnlyTopLevelFilesPurged ==
    [][\A p \in DOMAIN fs \ DOMAIN fs' : ChildOf(Dir, p) /\ ~fs[p].dir]_vars

\* C15: when the listing succeeds, a stat or delete failure on one entry
\* does not stop the purge: an entry whose Info fails is not deleted, and
\* every entry older than the filter whose Info and Remove do not fail is
\* deleted
C15_PurgeKeepsGoing ==
    [][\A r \in Slots :
          Passes(r, "Purging", "Archiving") /\ ~runs'[r].readErr
          => \A p \in DOMAIN fs :
                ChildOf(Dir, p)
                => /\ p \in runs'[r].statErr => p \in DOMAIN fs'
                   /\ (/\ p \notin runs'[r].statErr \cup runs'[r].removeErr
                       /\ UnixMilli(fs[p].mtime) < UnixMilli(runs[r].filter))
                      => p \notin DOMAIN fs']_vars

\* a purge met an entry older than the filter whose Info failed, and
\* deleted another entry
C15_Witness ==
    \E r \in Slots :
        /\ runs[r].pc = "Archiving"
        /\ \E p \in runs[r].statErr : fs[p].mtime < runs[r].filter
        /\ runs[r].deleted # {}

----------------------------------------------------------------------------
(* Configuration *)

\* main has a configuration it goes on with
Loaded == boot.pc \in {"configured", "serving"}

\* C16: an option that both the .env file and a command-line flag supply
\* has the flag's value in the loaded configuration
C16_FlagsTakePrecedence ==
    Loaded =>
        \A f \in FieldSet :
            boot.env[f] # "" /\ boot.args[f] # NotGiven
                => boot.cfg[f] = boot.args[f]

\* validate has just returned boot.errs for boot.cfg
Validated ==
    \/ boot.pc \in {"flags", "configured", "serving"}
    \/ boot.pc = "returned" /\ boot.dotenv

\* C17: validate returns no error exactly when no field is empty, and
\* otherwise an error with one message for each empty field; after an
\* error of the last validation main returns, and the scheduler is started
\* only with a configuration that has no empty field
C17_ValidateAggregates ==
    /\ Validated =>
          /\ boot.errs = <<>> <=> \A f \in FieldSet : boot.cfg[f] # ""
          /\ \A f \in FieldSet :
                boot.cfg[f] = ""
                    <=> \E i \in DOMAIN boot.errs : boot.errs[i] = Required(f)
          /\ Len(boot.errs) = Cardinality({f \in FieldSet : boot.cfg[f] = ""})
    /\ boot.pc = "returned" => ~boot.scheduler /\ proc = "exited"
    /\ boot.scheduler => \A f \in FieldSet : boot.cfg[f] # ""
    /\ Validated /\ boot.errs # <<>> => boot.pc \in {"flags", "returned"}

\* main has returned on a validation error that names three empty fields
C17_Witness ==
    /\ boot.pc = "returned"
    /\ Len(boot.errs) = 3
    /\ ~boot.scheduler

----------------------------------------------------------------------------
(* The delay between the trigger and the run, main.go:168 and 338-347 *)

\* the trigger that starts run r: the runs are numbered from day 1 on, one
\* trigger a day
TriggerOf(r) == DateAt(r, JobHour, JobMinute)

\* the purge of run r, triggered on day r, deletes nothing modified at or
\* after 23:50 of day r - 1, and so nothing modified on day r
SparesTheDay(r) ==
    \A p \in runs'[r].deleted :
        /\ fs[p].mtime < DateAt(r - 1, 23, 50)
        /\ DayOf(fs[p].mtime) # r

\* C18 as stated: whatever the delay between the trigger and the moment
\* the run reads the clock, its purge spares what was modified at or after
\* 23:50 of the day before the trigger
C18_AnyDelayAbsorbed ==
    [][\A r \in Slots :
          Passes(r, "Purging", "Archiving") => SparesTheDay(r)]_vars

\* C18, amended: a run that reads the clock before the midnight after its
\* trigger spares what was modified at or after 23:50 of the day before
C18_DelayWithinDayAbsorbed ==
    [][\A r \in Slots :
          /\ Passes(r, "Purging", "Archiving")
          /\ DayOf(runs[r].at) = DayOf(TriggerOf(r))
          => SparesTheDay(r)]_vars

\* a run read the clock after its trigger and before midnight, deleted
\* a.sql and kept edge.sql, modified at 23:50 of the day before
C18_Witness ==
    \E r \in Slots :
        /\ runs[r].pc = "Archiving"
        /\ runs[r].at > TriggerOf(r)
        /\ DayOf(runs[r].at) = DayOf(TriggerOf(r))
        /\ Join(Dir, "a.sql") \in runs[r].deleted
        /\ Exists(fs, Join(Dir, "edge.sql"))
        /\ fs[Join(Dir, "edge.sql")].mtime = DateAt(r - 1, 23, 50)

----------------------------------------------------------------------------
(* The walk of zipDir, main.go:76-116 *)

\* C19: once the walk of zipDir has failed at a file (creating its entry,
\* opening it or copying it), no file later in the walk has an entry in
\* the archive, every file earlier in the walk has one, zipDir returns with
\* the error, and the destination file is left on disk with what was
\* written
C19_FirstErrorAborts ==
    [][\A r \in Slots :
          /\ Passes(r, "Archiving", "Idle")
          /\ runs'[r].failedAt # <<>>
          /\ ~fs'[runs'[r].failedAt].dir
          => /\ runs'[r].zipErr
             /\ \A q \in DOMAIN fs' :
                   Below(Dir, q) /\ ~fs'[q].dir /\ q # runs'[r].failedAt
                   => (HasEntry(runs'[r].entries, q)
                          <=> WalkBefore(q, runs'[r].failedAt))
             /\ Exists(fs', runs'[r].zipPath)
             /\ fs'[runs'[r].zipPath].content = Zip(runs'[r].entries)]_vars

\* the walk of a run failed at a file, with a file before it in the
\* archive and a file after it left out
C19_Witness ==
    \E r \in Slots :
        /\ Returned(r)
        /\ runs[r].failedAt # <<>>
        /\ Exists(fs, runs[r].failedAt) /\ ~fs[runs[r].failedAt].dir
        /\ \E q \in DOMAIN fs :
              /\ Below(Dir, q) /\ ~fs[q].dir
              /\ WalkBefore(runs[r].failedAt, q)
              /\ ~HasEntry(runs[r].entries, q)
        /\ \E q \in DOMAIN fs :
              /\ Below(Dir, q) /\ ~fs[q].dir
              /\ WalkBefore(q, runs[r].failedAt)
              /\ HasEntry(runs[r].entries, q)
        /\ Exists(fs, runs[r].zipPath)

----------------------------------------------------------------------------
(* The name of the archive, main.go:168-176 and 65-70 *)

\* C20: a run writes its archive to a path that no other run has targeted
\* and at which no file exists yet
C20_FreshArchivePerRun ==
    [][\A r \in Slots :
          Passes(r, "Archiving", "Idle")
          => /\ ~Exists(fs, runs'[r].zipPath)
             /\ \A o \in Slots \ {r} : runs[o].zipPath # runs'[r].zipPath]_vars

----------------------------------------------------------------------------
(* Archive artifacts inside the source directory, main.go:175-176, 76-112 *)

\* an archive artifact: a name archive gives a destination (main.go:175)
IsArtifactName(n) == n \in ArchiveNames

\* C21: no archive a run produces has an entry for an archive artifact:
\* not for the run's own destination file, and not for the archive an
\* earlier run left in the source directory
C21_NoArtifactInArchive ==
    \A r \in Slots :
        \A i \in DOMAIN runs[r].entries :
            ~IsArtifactName(Base(runs[r].entries[i].name))

\* the archive artifacts in the source directory
Artifacts(f) ==
    {p \in DOMAIN f :
        ChildOf(Dir, p) /\ ~f[p].dir /\ IsArtifactName(Base(p))}

\* the day of the run that gives its archive the name of p: a run that
\* reads the clock on day d names the archive after 23:50 of day d - 1
RunDayOf(p) == DayOf(FilterOfName(Base(p))) + 1

\* the artifact at p was written by the run of its day: at or after that
\* day's trigger and before the trigger of the day after
LeftOnItsDay(f, p) ==
    /\ TriggerOf(RunDayOf(p)) <= f[p].mtime
    /\ f[p].mtime < TriggerOf(RunDayOf(p) + 1)

\* run r, having read the clock at its trigger, passes the purge stage
\* without a failure
CleanPurge(r) ==
    /\ Passes(r, "Purging", "Archiving")
    /\ runs[r].at = TriggerOf(r)
    /\ ~runs'[r].readErr
    /\ runs'[r].statErr = {} /\ runs'[r].removeErr = {}

\* C22: with every run at its 23:50 trigger and no purge failure, the
\* artifact the run of day D left in the source directory survives the
\* purge of the run of day D + 1 and is deleted by the purge of the run of
\* day D + 2; after the purge stage of a run at most one artifact of
\* earlier runs remains
C22_LeftoverLivesOneDay ==
    [][\A r \in Slots :
          CleanPurge(r) /\ (\A p \in Artifacts(fs) : LeftOnItsDay(fs, p))
          => /\ \A p \in Artifacts(fs) :
                   /\ RunDayOf(p) = r - 1 => p \in Artifacts(fs')
                   /\ RunDayOf(p) = r - 2 => p \notin DOMAIN fs'
             /\ Cardinality({p \in Artifacts(fs') : RunDayOf(p) < r}) <= 1
      ]_vars

\* the second run has just purged: gone is the archive of day 0, which
\* the first run's purge had spared, and the first run's archive is the
\* one artifact in the directory
C22_Witness ==
    /\ started = 2
    /\ runs[2].pc = "Archiving"
    /\ \A r \in {1, 2} :
          /\ runs[r].at = TriggerOf(r)
          /\ ~runs[r].readErr
          /\ runs[r].statErr = {} /\ runs[r].removeErr = {}
    /\ Join(Dir, LeftoverName) \notin runs[1].deleted
    /\ HasEntry(runs[1].entries, Join(Dir, LeftoverName))
    /\ Join(Dir, LeftoverName) \in runs[2].deleted
    /\ Artifacts(fs) = {runs[1].zipPath}
    /\ LeftOnItsDay(fs, runs[1].zipPath)
    /\ RunDayOf(runs[1].zipPath) = 1

----------------------------------------------------------------------------
(* Termination of zipDir, main.go:60-123, with the destination inside the *)
(* directory it walks, main.go:175-176                                    *)

\* C23: zipDir, as archive calls it, returns after finitely many steps:
\* no run is in a copy of its destination (which the walk reads while the
\* zip writer appends to it) that never reaches the end of the file
C23_ZipDirReturns ==
    \A r \in Slots :
        runs[r].pc = "Copying"
        => ~CopyNeverEnds(runs[r].unread, runs[r].held)

====
